---------------------------- MODULE Spec2Model ----------------------------
(***************************************************************************)
(* Model of sto::Adapter<T, IndexType> (sto-core/Adapter.hh): per-thread   *)
(* column access counters, their aggregation into a global atomic counter  *)
(* bank, and the split advisor computed from that bank.                    *)
(*                                                                         *)
(* Counters are size_t in the source; every bound below keeps them many    *)
(* orders of magnitude under 2^64, so they are modelled as naturals.       *)
(*                                                                         *)
(* The fractions of ComputeSplitIndex are doubles in the source.  They are *)
(* modelled as exact rationals [n, d]; d = 0 is the NaN that 0.0 / 0       *)
(* gives under IEEE 754, and every ordered comparison with a NaN is false. *)
(* A prefix sum never exceeds its total, so a zero total gives 0/0 and     *)
(* never x/0 with x > 0 (no infinities).                                   *)
(***************************************************************************)
EXTENDS Integers, FiniteSets, Sequences, TLC

\* IndexType::COLCOUNT of the instantiation that is modelled (the spec's
\* end-to-end scenarios use four columns).
NCOUNTERS == 4

\* MAX_THREADS of the build that is modelled: the slots of thread_counters.
MAX_THREADS == 2

\* ------------------------------------------------------------- bounds ----
\* The sum of the `count` arguments of all CountRead / CountWrite calls made
\* in one behaviour.
MaxOps == 2
\* Commit, ResetThread, ResetGlobal and RecomputeSplit calls made in one
\* behaviour, over all threads.
MaxCalls == 3
\* Largest counter value of a bank drawn as an input.
MaxCount == 2

Cols == 0 .. (NCOUNTERS - 1)
Threads == 1 .. MAX_THREADS

\* ------------------------------------------------------ counter sets ----
\* CounterSet<CounterType>: read_counters and write_counters, NCOUNTERS each.
ZeroBank == [read_counters |-> [c \in Cols |-> 0], write_counters |-> [c \in Cols |-> 0]]

Banks(m) == [read_counters : [Cols -> 0 .. m], write_counters : [Cols -> 0 .. m]]

\* Mutant of Reset: the write counters are forgotten.
ResetReadsOnly(bank) ==
    [read_counters |-> [c \in Cols |-> 0], write_counters |-> bank.write_counters]

\* CounterSet::Reset<Loop>: every read counter, then every write counter, is
\* stored 0 (the loop and the fill variants store the same values).
Reset(bank) ==
    [read_counters |-> [c \in Cols |-> 0], write_counters |-> [c \in Cols |-> 0]]

\* Mutant of FetchAdd: a store of v in place of the addition.
StoreNotAdd(slot, v) == v

\* std::atomic::fetch_add(v, relaxed) on one slot: the slot's new value.
FetchAdd(slot, v) == slot + v

\* The effect of Commit's whole loop on the global bank g, for local bank l.
CommitSlots(g, l) ==
    [read_counters |-> [c \in Cols |-> FetchAdd(g.read_counters[c], l.read_counters[c])],
     write_counters |-> [c \in Cols |-> FetchAdd(g.write_counters[c], l.write_counters[c])]]

\* ------------------------------------------------ rational arithmetic ----
Abs(x) == IF x < 0 THEN -x ELSE x

\* a * 1.0 / b
Div(a, b) == [n |-> a, d |-> b]

IsNaN(x) == x.d = 0

\* std::abs(x - y)
AbsDiff(x, y) == [n |-> Abs(x.n * y.d - y.n * x.d), d |-> x.d * y.d]

Half == [n |-> 1, d |-> 2]

\* Mutant of GreaterScaled: x >= y, without the margin and not strict, so a
\* tie replaces the best candidate.
GreaterOrEqualScaled(x, y, pct) ==
    /\ ~IsNaN(x)
    /\ ~IsNaN(y)
    /\ x.n * y.d >= y.n * x.d

\* Mutant of GreaterScaled: written as !(x <= y * pct / 100), which is true
\* when either side is a NaN.
GreaterScaledNegated(x, y, pct) ==
    ~(/\ ~IsNaN(x)
      /\ ~IsNaN(y)
      /\ x.n * y.d * 100 <= y.n * pct * x.d)

\* x > y * (pct / 100), false when either side is a NaN
GreaterScaled(x, y, pct) ==
    /\ ~IsNaN(x)
    /\ ~IsNaN(y)
    /\ x.n * y.d * 100 > y.n * pct * x.d

\* Mutant of LessScaled: the comparison is not strict, so a tie replaces the
\* best candidate.
LessOrEqualScaled(x, y, pct) ==
    /\ ~IsNaN(x)
    /\ ~IsNaN(y)
    /\ x.n * y.d * 100 <= y.n * pct * x.d

\* x < y * (pct / 100), false when either side is a NaN
LessScaled(x, y, pct) ==
    /\ ~IsNaN(x)
    /\ ~IsNaN(y)
    /\ x.n * y.d * 100 < y.n * pct * x.d

\* ------------------------------------------------- ComputeSplitIndex ----
\* The hysteresis margins, in percent: 1.05 and 0.95 in the source.
SkewMargin == 105
BalanceMargin == 95

RECURSIVE PrefixSum(_, _)
\* read_psum[i] / write_psum[i] of a frequency array
PrefixSum(freq, i) == IF i = 0 THEN freq[0] ELSE PrefixSum(freq, i - 1) + freq[i]

Total(freq) == PrefixSum(freq, NCOUNTERS - 1)

\* {read_psum[s - 1] * 1.0 / read_total, write_psum[s - 1] * 1.0 / write_total}
SplitData(read_freq, write_freq, s) ==
    << Div(PrefixSum(read_freq, s - 1), Total(read_freq)),
       Div(PrefixSum(write_freq, s - 1), Total(write_freq)) >>

\* std::abs(data[1] - data[0])
SkewDiff(read_freq, write_freq, s) ==
    LET data == SplitData(read_freq, write_freq, s) IN AbsDiff(data[2], data[1])

\* std::abs(write_psum[s - 1] * 1.0 / write_total - 0.5)
BalanceDiff(write_freq, s) ==
    AbsDiff(Div(PrefixSum(write_freq, s - 1), Total(write_freq)), Half)

RECURSIVE SkewPassStaleBest(_, _, _, _)
\* Mutant of SkewPass: best_data is never updated, so every candidate is
\* compared with the initial best, COLCOUNT.
SkewPassStaleBest(read_freq, write_freq, current_split, best_split) ==
    IF current_split = 0 THEN best_split
    ELSE IF GreaterScaled(SkewDiff(read_freq, write_freq, current_split),
                          SkewDiff(read_freq, write_freq, NCOUNTERS), SkewMargin)
         THEN SkewPassStaleBest(read_freq, write_freq, current_split - 1, current_split)
         ELSE SkewPassStaleBest(read_freq, write_freq, current_split - 1, best_split)

RECURSIVE SkewPass(_, _, _, _)
\* The first loop, from current_split down to 1, with best_split so far.
SkewPass(read_freq, write_freq, current_split, best_split) ==
    IF current_split = 0 THEN best_split
    ELSE IF GreaterScaled(SkewDiff(read_freq, write_freq, current_split),
                          SkewDiff(read_freq, write_freq, best_split), SkewMargin)
         THEN SkewPass(read_freq, write_freq, current_split - 1, current_split)
         ELSE SkewPass(read_freq, write_freq, current_split - 1, best_split)

RECURSIVE BalancePass(_, _, _)
\* The second loop, from current_split down to 1, with best_split so far.
BalancePass(write_freq, current_split, best_split) ==
    IF current_split = 0 THEN best_split
    ELSE IF LessScaled(BalanceDiff(write_freq, current_split),
                       BalanceDiff(write_freq, best_split), BalanceMargin)
         THEN BalancePass(write_freq, current_split - 1, current_split)
         ELSE BalancePass(write_freq, current_split - 1, best_split)

\* Mutant of SplitOfSnapshot: when neither loop finds a split, the "invalid"
\* sentinel 0 is returned.
SplitOrSentinel(read_freq, write_freq) ==
    LET skew == SkewPass(read_freq, write_freq, NCOUNTERS - 1, NCOUNTERS)
        best == IF skew = NCOUNTERS
                THEN BalancePass(write_freq, NCOUNTERS - 1, NCOUNTERS)
                ELSE skew
    IN  IF best = NCOUNTERS THEN 0 ELSE best

\* ComputeSplitIndex on the snapshot (read_freq, write_freq) it has taken.
SplitOfSnapshot(read_freq, write_freq) ==
    LET skew == SkewPass(read_freq, write_freq, NCOUNTERS - 1, NCOUNTERS)
    IN  IF skew = NCOUNTERS
        THEN BalancePass(write_freq, NCOUNTERS - 1, NCOUNTERS)
        ELSE skew

\* -------------------------------------------------------------- state ----
VARIABLES
    Enabled,          \* AdapterConfig::Enabled, set once before traffic begins
    thread_counters,  \* thread_counters[t]: the local bank of thread t
    global_counters,  \* the global bank of atomic counters
    current_split,    \* the published Split State; 0 is the "invalid" sentinel
    pc,               \* pc[t]: 0 when t is outside Commit, else the number of
                      \* the next fetch_add of its Commit loop (1 .. 2 * NCOUNTERS)
    last,             \* history: the call that returned last
    counted,          \* history: counted[t], the sum of all `count` arguments
                      \* thread t has passed to CountRead / CountWrite, per slot
    commits,          \* history: commits[t], the Commit calls t has begun
    tainted,          \* history: tainted[t], t has counted after its first
                      \* Commit began
    quiet,            \* history: "none" before the first RecomputeSplit, "quiet"
                      \* while no CountRead / CountWrite / Commit has run since
                      \* the last RecomputeSplit returned, else "active"
    window,           \* history: the global bank the last RecomputeSplit found
    nops,             \* history: the sum of the `count` arguments so far
    ncalls,           \* history: the other calls made so far
    m,                \* the maintenance actor inside RecomputeSplit or
                      \* ComputeSplitIndex, when these run load by load: its
                      \* position, its locals, and history of the call
    land,             \* history: land[t], when thread t's latest Commit began
                      \* and ended, and the bank it added
    NDEBUG,           \* the build: TRUE when assert() is compiled out
    aborted           \* the process has been aborted by a failed assert()

vars == << Enabled, thread_counters, global_counters, current_split, pc,
           last, quiet, window, nops, ncalls, counted, commits, tainted,
           m, land, NDEBUG, aborted >>

\* The history that only the aggregation claims read: each specification
\* says next to its actions how (and whether) it is kept.
aggVars == << counted, commits, tainted >>

\* The state of the maintenance actor's call in progress and the history of
\* the Commits around it: only the specification of the races keeps them.
raceVars == << m, land >>

\* The build and the process's life: only the specification of the
\* out-of-range calls lets them vary.
buildVars == << NDEBUG, aborted >>

\* The record kept of the call that returned last.  `before` is the bank the
\* call found: the caller's for ResetThread, the global one for Commit,
\* ResetGlobal, ComputeSplitIndex and RecomputeSplit.  `consec` says that the
\* call before it was the same operation by the same caller, and `first` is
\* then the bank that earlier call found.  For RecomputeSplit, `consec` says
\* that `quiet` was "quiet", `first` is `window` (the bank the RecomputeSplit
\* before it found), `prior` the stored Split State the call found and
\* `changed` the flag it returned.  `ret` is the split index computed.
Call(op, tid, before, first, consec, prior, ret, changed) ==
    [op |-> op, tid |-> tid, before |-> before, first |-> first, consec |-> consec,
     prior |-> prior, ret |-> ret, changed |-> changed]

NoCall == Call("none", 0, ZeroBank, ZeroBank, FALSE, 0, 0, FALSE)

\* What is kept of a returned CountRead or CountWrite call, and of a Commit
\* whose fetch_adds are separate steps.
OtherCall == Call("other", 0, ZeroBank, ZeroBank, FALSE, 0, 0, FALSE)

\* ------------------------------------------------------------ queries ----
GetRead(index) == IF Enabled THEN global_counters.read_counters[index] ELSE 0

GetWrite(index) == IF Enabled THEN global_counters.write_counters[index] ELSE 0

TGetRead(threadid, index) ==
    IF Enabled THEN thread_counters[threadid].read_counters[index] ELSE 0

TGetWrite(threadid, index) ==
    IF Enabled THEN thread_counters[threadid].write_counters[index] ELSE 0

\* Mutant of CurrentSplitOf: the sentinel is returned as it is stored.
CurrentSplitRaw(stored) == stored

\* CurrentSplit() for a stored Split State: 0 is read as COLCOUNT.
CurrentSplitOf(stored) == IF stored = 0 THEN NCOUNTERS ELSE stored

CurrentSplit == CurrentSplitOf(current_split)

\* CurrentSplit() loads current_split twice, for the test and for the return;
\* the member is not atomic, so a call that races with RecomputeSplit's store
\* may load two different values.
RacingCurrentSplit(first, second) == IF first = 0 THEN NCOUNTERS ELSE second

\* Mutant of ComputeSplitIndex: once a split has been published it is kept.
ComputeSplitIndexSticky ==
    IF current_split # 0 THEN current_split
    ELSE SplitOfSnapshot([c \in Cols |-> GetRead(c)], [c \in Cols |-> GetWrite(c)])

\* ComputeSplitIndex() run without interleaving: its snapshot is the bank.
ComputeSplitIndex ==
    SplitOfSnapshot([c \in Cols |-> GetRead(c)], [c \in Cols |-> GetWrite(c)])

\* The maintenance actor outside any call.  `pc` is "scan" while the call
\* loads the global bank (`k` numbers the next load), "scanned" once the
\* split is computed, "publish" once RecomputeSplit has reset the bank, and
\* "idle" after the return; `op` is the call made last.  History: `found` is
\* the global bank as the call began; `torn` says that a fetch_add or a
\* ResetGlobal of another actor ran during the scan; `adds` counts the Commit
\* calls that ran, in part or in whole, after the call's reset, and `wiped`
\* says that another actor's ResetGlobal did; `lost` gives per thread the
\* bank that a Commit of it added wholly between the call's scan and its
\* reset.
Idle ==
    [pc |-> "idle", op |-> "none", k |-> 0,
     read_freq |-> [c \in Cols |-> 0], write_freq |-> [c \in Cols |-> 0],
     split |-> 0, found |-> ZeroBank, torn |-> FALSE, adds |-> 0,
     wiped |-> FALSE, lost |-> [t \in Threads |-> ZeroBank]]

\* No Commit has run since the maintenance actor's call began.  `win` is the
\* position of the maintenance actor in which the thread's latest Commit
\* has run so far ("none": in more than one, or before the call began),
\* `done` says that it has finished, `added` is the bank it adds.
NoLanding == [win |-> "none", done |-> FALSE, added |-> ZeroBank]

\* The variables that the call-by-call specifications leave alone: asserts
\* are compiled in (no call there passes an index out of range).
InitRest ==
    /\ m = Idle
    /\ land = [t \in Threads |-> NoLanding]
    /\ NDEBUG = FALSE
    /\ aborted = FALSE

\* -------------------------------------------------------------- Init ----
Init ==
    /\ Enabled \in BOOLEAN
    /\ thread_counters = [t \in Threads |-> ZeroBank]
    /\ global_counters = ZeroBank
    /\ current_split = 0
    /\ pc = [t \in Threads |-> 0]
    /\ last = NoCall
    /\ counted = [t \in Threads |-> ZeroBank]
    /\ commits = [t \in Threads |-> 0]
    /\ tainted = [t \in Threads |-> FALSE]
    /\ quiet = "none"
    /\ window = ZeroBank
    /\ nops = 0
    /\ ncalls = 0
    /\ InitRest

\* ------------------------------------------- operations, call by call ----
Activity == IF quiet = "none" THEN "none" ELSE "active"

\* The `count` arguments the bound still allows.
Amounts == 1 .. (MaxOps - nops)

\* Mutant of CountRead: the enablement flag is not tested.
CountReadUnguarded(t, index, count) ==
    /\ pc[t] = 0
    /\ thread_counters' = [thread_counters EXCEPT ![t].read_counters[index] = @ + count]
    /\ nops' = nops + count
    /\ quiet' = Activity
    /\ last' = OtherCall
    /\ UNCHANGED << Enabled, global_counters, current_split, pc, window, ncalls >>

CountRead(t, index, count) ==
    /\ pc[t] = 0
    /\ thread_counters' =
         IF Enabled
         THEN [thread_counters EXCEPT ![t].read_counters[index] = @ + count]
         ELSE thread_counters
    /\ nops' = nops + count
    /\ quiet' = Activity
    /\ last' = OtherCall
    /\ UNCHANGED << Enabled, global_counters, current_split, pc, window, ncalls >>

\* Mutant of CountWrite: the count is added to the global bank at once.
CountWriteGlobal(t, index, count) ==
    /\ pc[t] = 0
    /\ global_counters' =
         IF Enabled
         THEN [global_counters EXCEPT !.write_counters[index] = @ + count]
         ELSE global_counters
    /\ nops' = nops + count
    /\ quiet' = Activity
    /\ last' = OtherCall
    /\ UNCHANGED << Enabled, thread_counters, current_split, pc, window, ncalls >>

CountWrite(t, index, count) ==
    /\ pc[t] = 0
    /\ thread_counters' =
         IF Enabled
         THEN [thread_counters EXCEPT ![t].write_counters[index] = @ + count]
         ELSE thread_counters
    /\ nops' = nops + count
    /\ quiet' = Activity
    /\ last' = OtherCall
    /\ UNCHANGED << Enabled, global_counters, current_split, pc, window, ncalls >>

\* Mutant of Commit: the thread's bank is reset once it has been added.
CommitThenResetLocal(t) ==
    /\ pc[t] = 0
    /\ ncalls < MaxCalls
    /\ global_counters' =
         IF Enabled THEN CommitSlots(global_counters, thread_counters[t])
         ELSE global_counters
    /\ thread_counters' =
         IF Enabled THEN [thread_counters EXCEPT ![t] = Reset(@)] ELSE thread_counters
    /\ ncalls' = ncalls + 1
    /\ quiet' = Activity
    /\ LET again == (last.op = "Commit" /\ last.tid = t) IN
         last' = Call("Commit", t, global_counters,
                      IF again THEN last.before ELSE ZeroBank, again, 0, 0, FALSE)
    /\ UNCHANGED << Enabled, current_split, pc, window, nops >>

\* Commit() by thread t, its loop run without interleaving.
Commit(t) ==
    /\ pc[t] = 0
    /\ ncalls < MaxCalls
    /\ global_counters' =
         IF Enabled THEN CommitSlots(global_counters, thread_counters[t])
         ELSE global_counters
    /\ ncalls' = ncalls + 1
    /\ quiet' = Activity
    /\ LET again == (last.op = "Commit" /\ last.tid = t) IN
         last' = Call("Commit", t, global_counters,
                      IF again THEN last.before ELSE ZeroBank, again, 0, 0, FALSE)
    /\ UNCHANGED << Enabled, thread_counters, current_split, pc, window, nops >>

ResetThread(t) ==
    /\ pc[t] = 0
    /\ ncalls < MaxCalls
    /\ thread_counters' =
         IF Enabled THEN [thread_counters EXCEPT ![t] = Reset(@)]
         ELSE thread_counters
    /\ ncalls' = ncalls + 1
    /\ last' = Call("ResetThread", t, thread_counters[t], ZeroBank, FALSE, 0, 0, FALSE)
    /\ UNCHANGED << Enabled, global_counters, current_split, pc, quiet, window, nops >>

ResetGlobal ==
    /\ ncalls < MaxCalls
    /\ global_counters' = IF Enabled THEN Reset(global_counters) ELSE global_counters
    /\ ncalls' = ncalls + 1
    /\ last' = Call("ResetGlobal", 0, global_counters, ZeroBank, FALSE, 0, 0, FALSE)
    /\ UNCHANGED << Enabled, thread_counters, current_split, pc, quiet, window, nops >>

\* Mutant of RecomputeSplit: ResetGlobal runs before ComputeSplitIndex, which
\* then reads the bank just reset.
RecomputeSplitResetFirst ==
    /\ ncalls < MaxCalls
    /\ LET reset == IF Enabled THEN Reset(global_counters) ELSE global_counters
           split == SplitOfSnapshot(
                      [c \in Cols |-> IF Enabled THEN reset.read_counters[c] ELSE 0],
                      [c \in Cols |-> IF Enabled THEN reset.write_counters[c] ELSE 0])
           changed == (split # current_split)
       IN  /\ global_counters' = reset
           /\ current_split' = split
           /\ last' = Call("RecomputeSplit", 0, global_counters, window,
                           quiet = "quiet", current_split, split, changed)
    /\ quiet' = "quiet"
    /\ window' = global_counters
    /\ ncalls' = ncalls + 1
    /\ UNCHANGED << Enabled, thread_counters, pc, nops >>

\* Mutant of RecomputeSplit: the call to ResetGlobal is left out.
RecomputeSplitNoReset ==
    /\ ncalls < MaxCalls
    /\ LET split == ComputeSplitIndex
           changed == (split # current_split)
       IN  /\ current_split' = split
           /\ last' = Call("RecomputeSplit", 0, global_counters, window,
                           quiet = "quiet", current_split, split, changed)
    /\ quiet' = "quiet"
    /\ window' = global_counters
    /\ ncalls' = ncalls + 1
    /\ UNCHANGED << Enabled, thread_counters, global_counters, pc, nops >>

\* RecomputeSplit() by the maintenance actor, run without interleaving:
\* ComputeSplitIndex, ResetGlobal, the comparison with the stored split, the
\* store of the new split.
RecomputeSplit ==
    /\ ncalls < MaxCalls
    /\ LET split == ComputeSplitIndex
           changed == (split # current_split)
       IN  /\ global_counters' =
                IF Enabled THEN Reset(global_counters) ELSE global_counters
           /\ current_split' = split
           /\ last' = Call("RecomputeSplit", 0, global_counters, window,
                           quiet = "quiet", current_split, split, changed)
    /\ quiet' = "quiet"
    /\ window' = global_counters
    /\ ncalls' = ncalls + 1
    /\ UNCHANGED << Enabled, thread_counters, pc, nops >>

\* Every operation as one step: the calls of the threads and of the
\* maintenance actor follow one another and never overlap.
Next ==
    \/ \E t \in Threads, index \in Cols, count \in Amounts :
          CountRead(t, index, count) /\ UNCHANGED << aggVars, raceVars, buildVars >>
    \/ \E t \in Threads, index \in Cols, count \in Amounts :
          CountWrite(t, index, count) /\ UNCHANGED << aggVars, raceVars, buildVars >>
    \/ \E t \in Threads : Commit(t) /\ UNCHANGED << aggVars, raceVars, buildVars >>
    \/ \E t \in Threads : ResetThread(t) /\ UNCHANGED << aggVars, raceVars, buildVars >>
    \/ ResetGlobal /\ UNCHANGED << aggVars, raceVars, buildVars >>
    \/ RecomputeSplit /\ UNCHANGED << aggVars, raceVars, buildVars >>

Spec == Init /\ [][Next]_vars

\* ------------------------------------- Commit, fetch_add by fetch_add ----
\* The slot the k-th fetch_add of Commit's loop adds to (k in 1 .. 2 * NCOUNTERS):
\* read_counters[i] then write_counters[i], for i from 0.
StepIndex(k) == (k - 1) \div 2

StepIsRead(k) == (k % 2) = 1

\* Commit() is entered by thread t.  With the flag off it returns at once.
CommitBegin(t) ==
    /\ pc[t] = 0
    /\ ncalls < MaxCalls
    /\ ncalls' = ncalls + 1
    /\ pc' = IF Enabled THEN [pc EXCEPT ![t] = 1] ELSE pc
    /\ quiet' = Activity
    /\ last' = OtherCall
    /\ UNCHANGED << Enabled, thread_counters, global_counters, current_split, window, nops >>

\* Mutant of CommitStep: the thread's bank is reset after the last fetch_add.
CommitStepThenResetLocal(t) ==
    /\ pc[t] > 0
    /\ LET i == StepIndex(pc[t]) IN
         global_counters' =
           IF StepIsRead(pc[t])
           THEN [global_counters EXCEPT !.read_counters[i] =
                    FetchAdd(@, thread_counters[t].read_counters[i])]
           ELSE [global_counters EXCEPT !.write_counters[i] =
                    FetchAdd(@, thread_counters[t].write_counters[i])]
    /\ pc' = [pc EXCEPT ![t] = IF @ = 2 * NCOUNTERS THEN 0 ELSE @ + 1]
    /\ thread_counters' =
         IF pc[t] = 2 * NCOUNTERS THEN [thread_counters EXCEPT ![t] = Reset(@)]
         ELSE thread_counters
    /\ UNCHANGED << Enabled, current_split, last, quiet, window, nops, ncalls >>

\* One fetch_add of thread t's Commit loop.
CommitStep(t) ==
    /\ pc[t] > 0
    /\ LET i == StepIndex(pc[t]) IN
         global_counters' =
           IF StepIsRead(pc[t])
           THEN [global_counters EXCEPT !.read_counters[i] =
                    FetchAdd(@, thread_counters[t].read_counters[i])]
           ELSE [global_counters EXCEPT !.write_counters[i] =
                    FetchAdd(@, thread_counters[t].write_counters[i])]
    /\ pc' = [pc EXCEPT ![t] = IF @ = 2 * NCOUNTERS THEN 0 ELSE @ + 1]
    /\ UNCHANGED << Enabled, thread_counters, current_split, last, quiet, window,
                    nops, ncalls >>

\* The history of counting and committing, kept per thread.
NoteCount(t, bank) ==
    /\ counted' = [counted EXCEPT ![t] = bank]
    /\ tainted' = [tainted EXCEPT ![t] = @ \/ commits[t] > 0]
    /\ UNCHANGED commits

NoteCommit(t) ==
    /\ commits' = [commits EXCEPT ![t] = @ + 1]
    /\ UNCHANGED << counted, tainted >>

\* The worker threads alone: counting, and Commit calls whose fetch_adds
\* interleave freely.  No ResetThread, ResetGlobal or RecomputeSplit runs.
NextAgg ==
    \/ \E t \in Threads, index \in Cols, count \in Amounts :
          /\ CountRead(t, index, count)
          /\ NoteCount(t, [counted[t] EXCEPT !.read_counters[index] = @ + count])
          /\ UNCHANGED << raceVars, buildVars >>
    \/ \E t \in Threads, index \in Cols, count \in Amounts :
          /\ CountWrite(t, index, count)
          /\ NoteCount(t, [counted[t] EXCEPT !.write_counters[index] = @ + count])
          /\ UNCHANGED << raceVars, buildVars >>
    \/ \E t \in Threads :
          CommitBegin(t) /\ NoteCommit(t) /\ UNCHANGED << raceVars, buildVars >>
    \/ \E t \in Threads : CommitStep(t) /\ UNCHANGED << aggVars, raceVars, buildVars >>

SpecAgg == Init /\ [][NextAgg]_vars

\* ------------------------------------------ the split advisor alone ----
\* ComputeSplitIndex() called on its own (as PrintStats does), run without
\* interleaving: nothing but the returned value.
ComputeSplitIndexCall ==
    /\ last' = Call("ComputeSplitIndex", 0, global_counters, ZeroBank, FALSE,
                    current_split, ComputeSplitIndex, FALSE)
    /\ UNCHANGED << Enabled, thread_counters, global_counters, current_split, pc,
                    quiet, window, nops, ncalls >>

\* The feature is on and the global bank holds any counts up to MaxCount:
\* what Commit calls leave behind, the threads having reset their own banks.
InitPure ==
    /\ Enabled = TRUE
    /\ thread_counters = [t \in Threads |-> ZeroBank]
    /\ global_counters \in Banks(MaxCount)
    /\ current_split = 0
    /\ pc = [t \in Threads |-> 0]
    /\ last = NoCall
    /\ counted = [t \in Threads |-> ZeroBank]
    /\ commits = [t \in Threads |-> 0]
    /\ tainted = [t \in Threads |-> FALSE]
    /\ quiet = "none"
    /\ window = ZeroBank
    /\ nops = 0
    /\ ncalls = 0
    /\ InitRest

NextPure == ComputeSplitIndexCall /\ UNCHANGED << aggVars, raceVars, buildVars >>

SpecPure == InitPure /\ [][NextPure]_vars

\* ------------------------------- the operations and the split advisor ----
\* Counting by every thread, Commit by thread 1 (the other threads' banks
\* keep their counts uncommitted) and RecomputeSplit as in Spec, and
\* ComputeSplitIndex() called on its own between them, in whatever state the
\* calls before it have left the banks and the published split.
NextObs ==
    \/ \E t \in Threads, index \in Cols, count \in Amounts :
          CountRead(t, index, count) /\ UNCHANGED << aggVars, raceVars, buildVars >>
    \/ \E t \in Threads, index \in Cols, count \in Amounts :
          CountWrite(t, index, count) /\ UNCHANGED << aggVars, raceVars, buildVars >>
    \/ Commit(1) /\ UNCHANGED << aggVars, raceVars, buildVars >>
    \/ RecomputeSplit /\ UNCHANGED << aggVars, raceVars, buildVars >>
    \/ ComputeSplitIndexCall /\ UNCHANGED << aggVars, raceVars, buildVars >>

SpecObs == Init /\ [][NextObs]_vars

\* ------------------------------ RecomputeSplit, load by load, in a race ----
\* The maintenance actor enters RecomputeSplit (which calls ComputeSplitIndex
\* first) or ComputeSplitIndex on its own: op says which.
ScanBegin(op) ==
    /\ m.pc = "idle"
    /\ ncalls < MaxCalls
    /\ ncalls' = ncalls + 1
    /\ m' = [Idle EXCEPT !.pc = "scan", !.op = op, !.k = 1, !.found = global_counters]
    /\ land' = [t \in Threads |-> NoLanding]
    /\ UNCHANGED << Enabled, thread_counters, global_counters, current_split, pc,
                    last, quiet, window, nops >>

\* One load of ComputeSplitIndex's loop: read_freq[i] = GetRead(i), then
\* write_freq[i] = GetWrite(i), for i from 0.  The prefix sums, the totals and
\* the two passes that follow the last load touch only locals: they are part
\* of that step.
ScanStep ==
    /\ m.pc = "scan"
    /\ LET i == StepIndex(m.k)
           read_freq == IF StepIsRead(m.k)
                        THEN [m.read_freq EXCEPT ![i] = GetRead(i)] ELSE m.read_freq
           write_freq == IF StepIsRead(m.k)
                         THEN m.write_freq ELSE [m.write_freq EXCEPT ![i] = GetWrite(i)]
       IN  m' = IF m.k = 2 * NCOUNTERS
                THEN [m EXCEPT !.read_freq = read_freq, !.write_freq = write_freq,
                               !.pc = "scanned", !.k = 0,
                               !.split = SplitOfSnapshot(read_freq, write_freq)]
                ELSE [m EXCEPT !.read_freq = read_freq, !.write_freq = write_freq,
                               !.k = @ + 1]
    /\ UNCHANGED << Enabled, thread_counters, global_counters, current_split, pc,
                    last, quiet, window, nops, ncalls, land >>

\* The maintenance actor once its call has returned: its locals are gone.
Returned ==
    [m EXCEPT !.pc = "idle", !.read_freq = Idle.read_freq,
              !.write_freq = Idle.write_freq, !.split = 0, !.found = ZeroBank]

\* Mutant of ComputeSplitIndexReturn: the split computed is also published.
ComputeSplitIndexReturnStores ==
    /\ m.pc = "scanned"
    /\ m.op = "ComputeSplitIndex"
    /\ m' = Returned
    /\ current_split' = m.split
    /\ last' = Call("ComputeSplitIndex", 0, m.found, ZeroBank, FALSE,
                    current_split, m.split, FALSE)
    /\ UNCHANGED << Enabled, thread_counters, global_counters, pc,
                    quiet, window, nops, ncalls, land >>

\* ComputeSplitIndex() called on its own returns best_split.
ComputeSplitIndexReturn ==
    /\ m.pc = "scanned"
    /\ m.op = "ComputeSplitIndex"
    /\ m' = Returned
    /\ last' = Call("ComputeSplitIndex", 0, m.found, ZeroBank, FALSE,
                    current_split, m.split, FALSE)
    /\ UNCHANGED << Enabled, thread_counters, global_counters, current_split, pc,
                    quiet, window, nops, ncalls, land >>

\* The Commits that a reset finds in progress.
RunningCommits == Cardinality({t \in Threads : pc[t] > 0})

\* RecomputeSplit, ComputeSplitIndex having returned: ResetGlobal().  Its
\* stores are taken as one step.
RecomputeReset ==
    /\ m.pc = "scanned"
    /\ m.op = "RecomputeSplit"
    /\ global_counters' = IF Enabled THEN Reset(global_counters) ELSE global_counters
    /\ m' = [m EXCEPT !.pc = "publish", !.adds = RunningCommits,
                      !.lost = [t \in Threads |->
                                  IF land[t].done /\ land[t].win = "scanned"
                                  THEN land[t].added ELSE ZeroBank]]
    /\ UNCHANGED << Enabled, thread_counters, current_split, pc, last, quiet,
                    window, nops, ncalls, land >>

\* Mutant of RecomputePublish: the global bank is reset once more as the
\* split is stored.
RecomputePublishAndReset ==
    /\ m.pc = "publish"
    /\ LET changed == (m.split # current_split) IN
         last' = Call("RecomputeSplit", 0, m.found, window, quiet = "quiet",
                      current_split, m.split, changed)
    /\ current_split' = m.split
    /\ global_counters' = IF Enabled THEN Reset(global_counters) ELSE global_counters
    /\ m' = Returned
    /\ quiet' = "quiet"
    /\ window' = m.found
    /\ UNCHANGED << Enabled, thread_counters, pc, nops, ncalls, land >>

\* RecomputeSplit, the bank having been reset: the comparison with the stored
\* split, the store of the new split, the return.
RecomputePublish ==
    /\ m.pc = "publish"
    /\ LET changed == (m.split # current_split) IN
         last' = Call("RecomputeSplit", 0, m.found, window, quiet = "quiet",
                      current_split, m.split, changed)
    /\ current_split' = m.split
    /\ m' = Returned
    /\ quiet' = "quiet"
    /\ window' = m.found
    /\ UNCHANGED << Enabled, thread_counters, global_counters, pc, nops, ncalls, land >>

\* After the reset of the RecomputeSplit call made last.
AfterReset == m.op = "RecomputeSplit" /\ m.pc \in {"publish", "idle"}

\* The history of a Commit that begins, of a fetch_add, and of a ResetGlobal
\* called by a worker.
NoteCommitBegin(t) ==
    /\ land' = [land EXCEPT ![t] = [win |-> IF m.op = "none" THEN "none" ELSE m.pc,
                                    done |-> FALSE, added |-> thread_counters[t]]]
    /\ m' = IF AfterReset THEN [m EXCEPT !.adds = @ + 1] ELSE m

NoteCommitStep(t) ==
    /\ land' = [land EXCEPT ![t].win = IF @ = m.pc THEN @ ELSE "none",
                            ![t].done = (pc[t] = 2 * NCOUNTERS)]
    /\ m' = IF m.pc = "scan" THEN [m EXCEPT !.torn = TRUE] ELSE m

NoteResetGlobal ==
    /\ m' = [m EXCEPT !.torn = (@ \/ m.pc = "scan"), !.wiped = (@ \/ AfterReset)]
    /\ UNCHANGED land

\* The feature is on.
InitRace == Init /\ Enabled

\* The threads that count and commit in the races: one worker against the
\* maintenance actor.
Workers == {CHOOSE t \in Threads : TRUE}

\* The worker counts, commits fetch_add by fetch_add and calls ResetGlobal
\* while the maintenance actor runs RecomputeSplit and ComputeSplitIndex load
\* by load: every interleaving of these steps.
NextRace ==
    \/ \E t \in Workers, index \in Cols, count \in Amounts :
          CountRead(t, index, count) /\ UNCHANGED << aggVars, raceVars, buildVars >>
    \/ \E t \in Workers, index \in Cols, count \in Amounts :
          CountWrite(t, index, count) /\ UNCHANGED << aggVars, raceVars, buildVars >>
    \/ \E t \in Workers :
          CommitBegin(t) /\ NoteCommitBegin(t) /\ UNCHANGED << aggVars, buildVars >>
    \/ \E t \in Workers :
          CommitStep(t) /\ NoteCommitStep(t) /\ UNCHANGED << aggVars, buildVars >>
    \/ ResetGlobal /\ NoteResetGlobal /\ UNCHANGED << aggVars, buildVars >>
    \/ \E op \in {"RecomputeSplit", "ComputeSplitIndex"} :
          ScanBegin(op) /\ UNCHANGED << aggVars, buildVars >>
    \/ ScanStep /\ UNCHANGED << aggVars, buildVars >>
    \/ ComputeSplitIndexReturn /\ UNCHANGED << aggVars, buildVars >>
    \/ RecomputeReset /\ UNCHANGED << aggVars, buildVars >>
    \/ RecomputePublish /\ UNCHANGED << aggVars, buildVars >>

SpecRace == InitRace /\ [][NextRace]_vars

\* ---------------------------------------------- indexes out of range ----
\* Column indexes that fail `index < Index::COLCOUNT`.
OutOfRange == NCOUNTERS .. (2 * NCOUNTERS - 1)

\* thread_counters[t].read_counters[numindex] += count (or write_counters)
\* with numindex past the end of the std::array: undefined behaviour.  The
\* store lands outside the array: in another slot of some thread's bank (the
\* arrays of a CounterSet and the CounterSets of thread_counters are
\* adjacent in memory), or nowhere that the Adapter reads.
StrayStore(count) ==
    \/ UNCHANGED thread_counters
    \/ \E u \in Threads, c \in Cols :
          \/ thread_counters' = [thread_counters EXCEPT ![u].read_counters[c] = @ + count]
          \/ thread_counters' = [thread_counters EXCEPT ![u].write_counters[c] = @ + count]

\* CountRead / CountWrite (op) by thread t with an index out of range.  With
\* asserts compiled in, assert(index < Index::COLCOUNT) fails and aborts the
\* process before anything is touched.  With NDEBUG the assert is no code:
\* the call returns normally, after a stray store when the flag is on.  The
\* record kept of the call holds in `before` the caller's bank, in `first`
\* the global bank and in `prior` the stored Split State, as the call found
\* them.
CountOutOfRange(op, t, index, count) ==
    /\ index \in OutOfRange
    /\ pc[t] = 0
    /\ ~aborted
    /\ IF ~NDEBUG
       THEN aborted' = TRUE /\ UNCHANGED thread_counters
       ELSE /\ UNCHANGED aborted
            /\ IF Enabled THEN StrayStore(count) ELSE UNCHANGED thread_counters
    /\ nops' = nops + count
    /\ last' = Call(op, t, thread_counters[t], global_counters, FALSE,
                    current_split, 0, FALSE)
    /\ UNCHANGED << Enabled, global_counters, current_split, pc, quiet, window,
                    ncalls, NDEBUG >>

\* Either build, the flag on or off.
InitAssert ==
    /\ Enabled \in BOOLEAN
    /\ NDEBUG \in BOOLEAN
    /\ aborted = FALSE
    /\ thread_counters = [t \in Threads |-> ZeroBank]
    /\ global_counters = ZeroBank
    /\ current_split = 0
    /\ pc = [t \in Threads |-> 0]
    /\ last = NoCall
    /\ counted = [t \in Threads |-> ZeroBank]
    /\ commits = [t \in Threads |-> 0]
    /\ tainted = [t \in Threads |-> FALSE]
    /\ quiet = "none"
    /\ window = ZeroBank
    /\ nops = 0
    /\ ncalls = 0
    /\ m = Idle
    /\ land = [t \in Threads |-> NoLanding]

\* Counting calls with indexes in range and out of range, and Commit, until
\* the process is aborted.
NextAssert ==
    \/ \E t \in Threads, index \in Cols, count \in Amounts :
          /\ ~aborted
          /\ CountRead(t, index, count)
          /\ UNCHANGED << aggVars, raceVars, buildVars >>
    \/ \E t \in Threads, index \in Cols, count \in Amounts :
          /\ ~aborted
          /\ CountWrite(t, index, count)
          /\ UNCHANGED << aggVars, raceVars, buildVars >>
    \/ \E t \in Threads :
          ~aborted /\ Commit(t) /\ UNCHANGED << aggVars, raceVars, buildVars >>
    \/ \E t \in Threads, index \in OutOfRange, count \in Amounts :
          CountOutOfRange("CountRead", t, index, count) /\ UNCHANGED << aggVars, raceVars >>
    \/ \E t \in Threads, index \in OutOfRange, count \in Amounts :
          CountOutOfRange("CountWrite", t, index, count) /\ UNCHANGED << aggVars, raceVars >>

SpecAssert == InitAssert /\ [][NextAssert]_vars

\* ------------------------------------------ two observation windows ----
\* Thread 1 has counted any bank up to MaxCount and has committed it once:
\* the first window is in the global bank, and the thread's bank still holds
\* it (Commit does not reset it).
InitWin ==
    /\ Enabled = TRUE
    /\ \E bank \in Banks(MaxCount) :
          /\ thread_counters = [t \in Threads |-> IF t = 1 THEN bank ELSE ZeroBank]
          /\ global_counters = bank
    /\ current_split = 0
    /\ pc = [t \in Threads |-> 0]
    /\ last = NoCall
    /\ counted = [t \in Threads |-> ZeroBank]
    /\ commits = [t \in Threads |-> 0]
    /\ tainted = [t \in Threads |-> FALSE]
    /\ quiet = "none"
    /\ window = ZeroBank
    /\ nops = 0
    /\ ncalls = 0
    /\ InitRest

\* The maintenance actor recomputes the split; after that thread 1 counts one
\* more access and then commits its bank again, which makes the next window.
NextWin ==
    \/ \E index \in Cols :
          /\ nops = 0 /\ quiet = "quiet" /\ CountRead(1, index, 1)
          /\ UNCHANGED << aggVars, raceVars, buildVars >>
    \/ \E index \in Cols :
          /\ nops = 0 /\ quiet = "quiet" /\ CountWrite(1, index, 1)
          /\ UNCHANGED << aggVars, raceVars, buildVars >>
    \/ nops > 0 /\ Commit(1) /\ UNCHANGED << aggVars, raceVars, buildVars >>
    \/ RecomputeSplit /\ UNCHANGED << aggVars, raceVars, buildVars >>

SpecWin == InitWin /\ [][NextWin]_vars

\* ------------------------------------------------------------- claims ----
Quiescent == \A t \in Threads : pc[t] = 0

RECURSIVE SumOver(_, _)
\* The sum of f[t] over the threads of set S.
SumOver(f, S) ==
    IF S = {} THEN 0
    ELSE LET t == CHOOSE x \in S : TRUE IN f[t] + SumOver(f, S \ {t})

\* The sum, over the threads that have committed once, of what each counted.
CountedReads(c) ==
    SumOver([t \in Threads |-> IF commits[t] = 1 THEN counted[t].read_counters[c] ELSE 0],
            Threads)

CountedWrites(c) ==
    SumOver([t \in Threads |-> IF commits[t] = 1 THEN counted[t].write_counters[c] ELSE 0],
            Threads)

\* C1 (SpecAgg: the global bank starts all zero and no ResetGlobal or
\* RecomputeSplit runs).  With the feature on, once every Commit has finished,
\* each thread having counted first and then committed at most once, every
\* global read (write) slot equals the sum of the reads (writes) counted by the
\* threads that committed, whatever the interleaving of their fetch_adds.
C1_AggregationSum ==
    (/\ Enabled
     /\ Quiescent
     /\ \A t \in Threads : commits[t] <= 1 /\ ~tainted[t])
    => \A c \in Cols : GetRead(c) = CountedReads(c) /\ GetWrite(c) = CountedWrites(c)

\* Both threads have counted on one same slot and both Commits have finished.
C1_Witness ==
    /\ Enabled
    /\ Quiescent
    /\ \A t \in Threads : commits[t] = 1 /\ ~tainted[t]
    /\ \E c \in Cols : \A t \in Threads : counted[t].read_counters[c] > 0

\* C2 (Spec).  With the feature on, when a thread has called Commit twice in a
\* row (no other call in between), every global slot exceeds what it held
\* before the first of the two calls by exactly twice the thread's local slot,
\* the local bank being the one both calls read.
C2_CommitTwiceDoubles ==
    (Enabled /\ last.op = "Commit" /\ last.consec)
    => \A c \in Cols :
         /\ global_counters.read_counters[c] =
              last.first.read_counters[c] + 2 * thread_counters[last.tid].read_counters[c]
         /\ global_counters.write_counters[c] =
              last.first.write_counters[c] + 2 * thread_counters[last.tid].write_counters[c]

\* A thread with counts has committed twice in a row into a bank that already
\* held another thread's counts.
C2_Witness ==
    /\ Enabled
    /\ last.op = "Commit"
    /\ last.consec
    /\ thread_counters[last.tid] # ZeroBank
    /\ last.first # ZeroBank

\* C3 (Spec).  With the feature on, right after ResetGlobal every GetRead and
\* GetWrite is 0, and right after ResetThread every TGetRead and TGetWrite of
\* the calling thread is 0.
C3_ResetsZero ==
    Enabled =>
      /\ last.op = "ResetGlobal" =>
           \A c \in Cols : GetRead(c) = 0 /\ GetWrite(c) = 0
      /\ last.op = "ResetThread" =>
           \A c \in Cols : TGetRead(last.tid, c) = 0 /\ TGetWrite(last.tid, c) = 0

\* ResetGlobal has just reset a bank that held reads and writes.
C3_Witness ==
    /\ Enabled
    /\ last.op = "ResetGlobal"
    /\ \E c \in Cols : last.before.read_counters[c] > 0
    /\ \E c \in Cols : last.before.write_counters[c] > 0

\* C4 (Spec).  With the flag off from the start, after any sequence of calls
\* every query returns 0 and every stored counter still holds 0.
C4_DisabledAllZero ==
    ~Enabled =>
      /\ \A c \in Cols : GetRead(c) = 0 /\ GetWrite(c) = 0
      /\ \A t \in Threads, c \in Cols : TGetRead(t, c) = 0 /\ TGetWrite(t, c) = 0
      /\ global_counters = ZeroBank
      /\ \A t \in Threads : thread_counters[t] = ZeroBank

\* The flag is off, counting calls and a Commit have been made, and a
\* RecomputeSplit has just returned.
C4_Witness ==
    /\ ~Enabled
    /\ nops >= 2
    /\ ncalls >= 2
    /\ last.op = "RecomputeSplit"

\* C5 (Spec).  While no RecomputeSplit has run, whatever else has, the stored
\* Split State is the sentinel 0 and CurrentSplit() returns COLCOUNT.
C5_SentinelReadsColcount ==
    quiet = "none" => (current_split = 0 /\ CurrentSplit = NCOUNTERS)

\* Counts have been committed and a reset has run, but no RecomputeSplit.
C5_Witness ==
    /\ quiet = "none"
    /\ Enabled
    /\ nops > 0
    /\ ncalls >= 2
    /\ global_counters # ZeroBank

\* C6 (Spec).  With the feature on, right after RecomputeSplit the published
\* split is the split index of the global bank as it stood before the call,
\* and every global slot is 0.
C6_RecomputePublishes ==
    (Enabled /\ last.op = "RecomputeSplit")
    => /\ current_split =
            SplitOfSnapshot(last.before.read_counters, last.before.write_counters)
       /\ global_counters = ZeroBank

\* RecomputeSplit has just published a real split from a non-empty bank.
C6_Witness ==
    /\ Enabled
    /\ last.op = "RecomputeSplit"
    /\ last.before # ZeroBank
    /\ current_split # NCOUNTERS
    /\ last.changed

\* C7, as claimed (Spec).  The flag RecomputeSplit returns is true exactly when
\* CurrentSplit() after the call differs from CurrentSplit() before it.
C7_ChangedIffCurrentSplitDiffers ==
    last.op = "RecomputeSplit"
    => (last.changed <=> (CurrentSplit # CurrentSplitOf(last.prior)))

\* C8, as claimed (Spec).  A RecomputeSplit that follows another one with no
\* counting and no Commit in between leaves the published split as it was and
\* returns false.
C8_SecondRecomputeUnchanged ==
    (last.op = "RecomputeSplit" /\ last.consec)
    => (current_split = last.prior /\ ~last.changed)

\* C8, amended (Spec).  A RecomputeSplit that follows another one with no
\* counting and no Commit in between publishes COLCOUNT; it returns false, and
\* leaves the published split as it was, exactly when the call before it had
\* published COLCOUNT.
C8_SecondRecomputeFallback ==
    (last.op = "RecomputeSplit" /\ last.consec)
    => /\ current_split = NCOUNTERS
       /\ last.changed <=> (last.prior # NCOUNTERS)
       /\ (last.prior = NCOUNTERS) <=> (current_split = last.prior)

\* The second of two such calls has replaced a real split by COLCOUNT.
C8_Witness ==
    /\ Enabled
    /\ last.op = "RecomputeSplit"
    /\ last.consec
    /\ last.prior \in 1 .. (NCOUNTERS - 1)
    /\ last.changed

\* The columns left of candidate split s.
Left(s) == 0 .. (s - 1)

RECURSIVE SumCols(_, _)
\* The sum of freq[c] over the columns of set S.
SumCols(freq, S) ==
    IF S = {} THEN 0
    ELSE LET c == CHOOSE x \in S : TRUE IN freq[c] + SumCols(freq, S \ {c})

\* diff(s) = |left write fraction - left read fraction| of a bank, times the
\* product of its read and write totals (a common denominator).
DiffTimesTotals(bank, s) ==
    Abs(SumCols(bank.write_counters, Left(s)) * SumCols(bank.read_counters, Cols)
        - SumCols(bank.read_counters, Left(s)) * SumCols(bank.write_counters, Cols))

BothTotalsNonzero(bank) ==
    /\ SumCols(bank.read_counters, Cols) > 0
    /\ SumCols(bank.write_counters, Cols) > 0

\* The left-group fraction of freq1 and of freq2 at split s differ by less
\* than 5% (1/20): |p1/t1 - p2/t2| < 1/20, for nonzero totals t1 and t2.
FractionsClose(freq1, freq2, s) ==
    20 * Abs(SumCols(freq1, Left(s)) * SumCols(freq2, Cols)
             - SumCols(freq2, Left(s)) * SumCols(freq1, Cols))
      < SumCols(freq1, Cols) * SumCols(freq2, Cols)

WindowsClose(bank1, bank2) ==
    \A s \in 1 .. NCOUNTERS :
       /\ FractionsClose(bank1.read_counters, bank2.read_counters, s)
       /\ FractionsClose(bank1.write_counters, bank2.write_counters, s)

\* C9, as claimed (SpecWin).  When two consecutive RecomputeSplit calls found
\* banks with nonzero read and write totals whose left-group read fractions
\* and write fractions differ by less than 5% at every candidate split, the
\* second call publishes the split the first one published and returns false.
C9_CloseWindowsSameSplit ==
    (/\ last.op = "RecomputeSplit"
     /\ last.prior # 0
     /\ BothTotalsNonzero(last.first)
     /\ BothTotalsNonzero(last.before)
     /\ WindowsClose(last.first, last.before))
    => (current_split = last.prior /\ ~last.changed)

\* Candidate s beats every other candidate by more than the 5% margin.
Dominant(bank, s) ==
    \A o \in (1 .. NCOUNTERS) \ {s} :
       100 * DiffTimesTotals(bank, s) > 105 * DiffTimesTotals(bank, o)

\* C10 (SpecPure).  For a global bank with nonzero read and write totals in
\* which a candidate s below COLCOUNT has diff(s) > 1.05 * diff(o) for every
\* other candidate o, ComputeSplitIndex() returns s.
C10_DominantWins ==
    (last.op = "ComputeSplitIndex" /\ BothTotalsNonzero(last.before))
    => \A s \in 1 .. (NCOUNTERS - 1) : Dominant(last.before, s) => last.ret = s

\* The scenario reads [1,1,1,1], writes [0,0,1,1] (the spec's [10,10,10,10]
\* and [0,0,40,40] scaled down): split 2 is dominant and is returned.
C10_Witness ==
    /\ last.op = "ComputeSplitIndex"
    /\ last.before.read_counters = [c \in Cols |-> 1]
    /\ last.before.write_counters = [c \in Cols |-> IF c < 2 THEN 0 ELSE 1]
    /\ Dominant(last.before, 2)
    /\ last.ret = 2

\* Every skew diff(s) of the bank is 0: the read and the write distribution
\* have the same prefix fractions.
NoSkew(bank) == \A s \in 1 .. NCOUNTERS : DiffTimesTotals(bank, s) = 0

\* The left-group write fraction of the bank at split s is exactly one half.
HalfAt(bank, s) ==
    2 * SumCols(bank.write_counters, Left(s)) = SumCols(bank.write_counters, Cols)

\* C11 (SpecPure).  For a global bank with nonzero read and write totals whose
\* skew diff(s) is 0 at every candidate, if some candidate below COLCOUNT has
\* left-group write fraction exactly one half, ComputeSplitIndex() returns
\* the largest such candidate.
C11_BalancePassPicksHalf ==
    (/\ last.op = "ComputeSplitIndex"
     /\ BothTotalsNonzero(last.before)
     /\ NoSkew(last.before))
    => \A s \in 1 .. (NCOUNTERS - 1) :
          (HalfAt(last.before, s)
           /\ \A o \in (s + 1) .. (NCOUNTERS - 1) : ~HalfAt(last.before, o))
          => last.ret = s

\* Reads and writes both [1,0,1,0]: no skew, the write fraction is one half at
\* splits 1 and 2, and 2 is returned.
C11_Witness ==
    /\ last.op = "ComputeSplitIndex"
    /\ last.before.read_counters = [c \in Cols |-> IF c \in {0, 2} THEN 1 ELSE 0]
    /\ last.before.write_counters = last.before.read_counters
    /\ NoSkew(last.before)
    /\ HalfAt(last.before, 1)
    /\ HalfAt(last.before, 2)
    /\ last.ret = 2

\* C12 (Spec).  With the feature on, a RecomputeSplit() that finds every
\* global counter at zero gets COLCOUNT from ComputeSplitIndex() and
\* publishes it.
C12_ZeroBankGivesColcount ==
    (Enabled /\ last.op = "RecomputeSplit" /\ last.before = ZeroBank)
    => /\ last.ret = NCOUNTERS
       /\ current_split = NCOUNTERS
       /\ CurrentSplit = NCOUNTERS

\* RecomputeSplit has just run on an all-zero bank while a thread's bank held
\* counts not yet committed.
C12_Witness ==
    /\ Enabled
    /\ last.op = "RecomputeSplit"
    /\ last.before = ZeroBank
    /\ \E t \in Threads : thread_counters[t] # ZeroBank
    /\ last.changed

\* C13 (SpecObs).  ComputeSplitIndex() returns a value that is a function of
\* the global bank it finds and of nothing else (so any two calls that find
\* the same bank return the same value, whatever the thread-local banks and
\* the published split are), and the call changes no global counter, no
\* thread-local counter, not the Split State and not the flag.
C13_ComputeSplitIndexPure ==
    /\ [](last.op = "ComputeSplitIndex"
          => last.ret = SplitOfSnapshot(last.before.read_counters,
                                        last.before.write_counters))
    /\ [][(last' # last /\ last'.op = "ComputeSplitIndex")
          => /\ last'.before = global_counters
             /\ UNCHANGED << Enabled, thread_counters, global_counters, current_split >>
       ]_vars

\* ComputeSplitIndex() has returned a split other than the published one, on
\* a non-empty bank, while a thread's bank held counts.
C13_Witness ==
    /\ last.op = "ComputeSplitIndex"
    /\ global_counters # ZeroBank
    /\ current_split # 0
    /\ last.ret # current_split
    /\ \E t \in Threads : thread_counters[t] # ZeroBank

\* C14, as claimed (SpecAssert).  Once a CountRead or CountWrite call has been
\* made with an index not below COLCOUNT, the process is aborted, and the
\* caller's bank, the global bank and the Split State are as the call found
\* them, in either build and with the flag on or off.
C14_OutOfRangeAborts ==
    last.op \in {"CountRead", "CountWrite"}
    => /\ aborted
       /\ thread_counters[last.tid] = last.before
       /\ global_counters = last.first
       /\ current_split = last.prior

\* Bank a holds at least what bank b holds, slot by slot.
Covers(a, b) ==
    \A c \in Cols : /\ a.read_counters[c] >= b.read_counters[c]
                    /\ a.write_counters[c] >= b.write_counters[c]

\* RecomputeSplit has returned, and since its reset of the global bank
\* nothing has touched that bank but one Commit of thread t, which added a
\* non-empty bank and ran wholly between the reset and the store of the
\* split.
CommitBetweenResetAndPublish(t) ==
    /\ AfterReset
    /\ m.pc = "idle"
    /\ ~m.wiped
    /\ m.adds = 1
    /\ land[t].done
    /\ land[t].win = "publish"
    /\ land[t].added # ZeroBank

\* C15, as claimed (SpecRace).  The counts of a Commit that ran wholly between
\* RecomputeSplit's reset and its publication are not in the global bank once
\* RecomputeSplit has returned, and the next ComputeSplitIndex() gives what
\* it gives for an empty bank.
C15_CommitAfterResetDiscarded ==
    \A t \in Threads :
       CommitBetweenResetAndPublish(t)
       => /\ global_counters = ZeroBank
          /\ ComputeSplitIndex = SplitOfSnapshot(ZeroBank.read_counters,
                                                 ZeroBank.write_counters)

\* C15, amended (SpecRace).  The counts of a Commit that ran wholly between
\* RecomputeSplit's reset and its publication are all in the global bank once
\* RecomputeSplit has returned, and the next ComputeSplitIndex() is computed
\* from them.
C15_CommitAfterResetKept ==
    \A t \in Threads :
       CommitBetweenResetAndPublish(t)
       => /\ global_counters = land[t].added
          /\ ComputeSplitIndex = SplitOfSnapshot(land[t].added.read_counters,
                                                 land[t].added.write_counters)

\* Such a Commit has run, and the counts it added give a split below COLCOUNT.
C15_Witness ==
    \E t \in Threads :
       /\ CommitBetweenResetAndPublish(t)
       /\ last.op = "RecomputeSplit"
       /\ ComputeSplitIndex # NCOUNTERS

\* C16 (SpecRace).  When a Commit of thread t has run wholly between
\* RecomputeSplit's scan of the global bank and its reset, adding a non-empty
\* bank: the split the call computes and publishes is that of the bank as the
\* call found it (nothing else having touched the bank during the scan);
\* every global slot is 0 after the reset; the thread's bank still holds the
\* counts; and when the thread's next Commit is all that has touched the
\* global bank since the reset, the global bank holds what that Commit added,
\* the lost counts among it.
C16_CommitBeforeResetLost ==
    \A t \in Threads :
       (m.op = "RecomputeSplit" /\ m.lost[t] # ZeroBank)
       => /\ (m.pc = "publish" /\ ~m.torn)
             => m.split = SplitOfSnapshot(m.found.read_counters,
                                          m.found.write_counters)
          /\ (m.pc = "idle" /\ ~m.torn /\ last.op = "RecomputeSplit")
             => current_split = SplitOfSnapshot(last.before.read_counters,
                                                last.before.write_counters)
          /\ (m.pc = "publish" /\ m.adds = 0 /\ ~m.wiped)
             => global_counters = ZeroBank
          /\ AfterReset => Covers(thread_counters[t], m.lost[t])
          /\ (AfterReset /\ ~m.wiped /\ m.adds = 1
                /\ land[t].done /\ land[t].win # "scanned")
             => /\ global_counters = land[t].added
                /\ Covers(global_counters, m.lost[t])

\* A Commit lost between scan and reset has been followed, after the reset,
\* by a Commit of the same thread that has added the counts again.
C16_Witness ==
    \E t \in Threads :
       /\ AfterReset
       /\ m.pc = "idle"
       /\ m.lost[t] # ZeroBank
       /\ ~m.torn
       /\ ~m.wiped
       /\ m.adds = 1
       /\ land[t].done
       /\ land[t].win = "idle"
       /\ global_counters = land[t].added
       /\ current_split = NCOUNTERS

Snapshot == [read_counters |-> m.read_freq, write_counters |-> m.write_freq]

\* C19 (SpecRace).  Whatever the snapshot, torn by fetch_adds and ResetGlobal
\* calls interleaved with the scan or not, the split ComputeSplitIndex()
\* computes and returns is in 1 .. COLCOUNT, and in every reachable state
\* CurrentSplit() is in 1 .. COLCOUNT, also when its two loads race with the
\* store of RecomputeSplit (the value before it, or the value after it).
C19_SplitInRange ==
    /\ CurrentSplit \in 1 .. NCOUNTERS
    /\ m.pc = "publish"
         => \A loads \in {<< current_split, current_split >>,
                           << current_split, m.split >>, << m.split, m.split >>} :
               RacingCurrentSplit(loads[1], loads[2]) \in 1 .. NCOUNTERS
    /\ m.pc \in {"scanned", "publish"} => m.split \in 1 .. NCOUNTERS
    /\ last.op \in {"ComputeSplitIndex", "RecomputeSplit"}
         => last.ret \in 1 .. NCOUNTERS

\* A split has been computed from a snapshot that was never in the global
\* bank: it holds a write count that a Commit added, and lacks a read count
\* that the same Commit had added before.
C19_Witness ==
    /\ m.pc = "scanned"
    /\ m.torn
    /\ Snapshot # m.found
    /\ Snapshot # global_counters
    /\ \E c \in Cols : m.read_freq[c] < global_counters.read_counters[c]
    /\ \E c \in Cols : m.write_freq[c] > m.found.write_counters[c]
    /\ m.split \in 1 .. NCOUNTERS

\* Thread t's read slots (kind "read") or write slots grow by count at column
\* index and nothing else changes in any thread's bank.
OnlySlotGrows(kind, t, index, count) ==
    \A u \in Threads, c \in Cols :
       /\ thread_counters'[u].read_counters[c] =
            thread_counters[u].read_counters[c]
            + (IF kind = "read" /\ u = t /\ c = index THEN count ELSE 0)
       /\ thread_counters'[u].write_counters[c] =
            thread_counters[u].write_counters[c]
            + (IF kind = "write" /\ u = t /\ c = index THEN count ELSE 0)

\* C17 (Spec).  With the feature on, a CountRead (CountWrite) step of thread t
\* adds the amount to t's read (write) slot of the column and changes no
\* other slot of any thread's bank and nothing of the global bank; and every
\* step that changes the global bank is a Commit, a ResetGlobal or a
\* RecomputeSplit.
C17_CountTouchesOneLocalSlot ==
    [][Enabled =>
         /\ \A t \in Threads, index \in Cols, count \in 1 .. MaxOps :
               /\ CountRead(t, index, count)
                    => /\ OnlySlotGrows("read", t, index, count)
                       /\ global_counters' = global_counters
               /\ CountWrite(t, index, count)
                    => /\ OnlySlotGrows("write", t, index, count)
                       /\ global_counters' = global_counters
         /\ global_counters' # global_counters
              => last'.op \in {"Commit", "ResetGlobal", "RecomputeSplit"}
      ]_vars

\* A thread has counted after a Commit: its bank holds more than the global
\* bank, which holds what was committed.
C17_Witness ==
    /\ Enabled
    /\ last.op = "other"
    /\ global_counters # ZeroBank
    /\ \E t \in Threads :
          /\ Covers(thread_counters[t], global_counters)
          /\ thread_counters[t] # global_counters

\* C20 (SpecPure).  For a global bank with nonzero read and write totals in
\* which some candidate below COLCOUNT has diff > 0, ComputeSplitIndex()
\* returns the result r of the first loop (the second loop does not run),
\* r is below COLCOUNT, no candidate has diff(s) > 1.05 * diff(r), and every
\* candidate whose diff equals diff(r) is at most r.
C20_WithinMarginOfBestSkew ==
    (/\ last.op = "ComputeSplitIndex"
     /\ BothTotalsNonzero(last.before)
     /\ \E s \in 1 .. (NCOUNTERS - 1) : DiffTimesTotals(last.before, s) > 0)
    => /\ last.ret \in 1 .. (NCOUNTERS - 1)
       /\ last.ret = SkewPass(last.before.read_counters, last.before.write_counters,
                              NCOUNTERS - 1, NCOUNTERS)
       /\ \A s \in 1 .. NCOUNTERS :
             /\ 100 * DiffTimesTotals(last.before, s)
                  <= SkewMargin * DiffTimesTotals(last.before, last.ret)
             /\ DiffTimesTotals(last.before, s) = DiffTimesTotals(last.before, last.ret)
                  => s <= last.ret

\* The split returned ties with a smaller candidate, and a third candidate
\* has a smaller diff above 0.
C20_Witness ==
    /\ last.op = "ComputeSplitIndex"
    /\ BothTotalsNonzero(last.before)
    /\ last.ret \in 2 .. (NCOUNTERS - 1)
    /\ \E s \in 1 .. (last.ret - 1) :
          DiffTimesTotals(last.before, s) = DiffTimesTotals(last.before, last.ret)
    /\ \E s \in 1 .. (NCOUNTERS - 1) :
          /\ DiffTimesTotals(last.before, s) > 0
          /\ DiffTimesTotals(last.before, s) < DiffTimesTotals(last.before, last.ret)

=============================================================================
